---- MODULE Spec2Model ----
(***************************************************************************)
(* Model of money_counter_bot (src/main.py): the per-user ledger kept in   *)
(* context.user_data, the ConversationHandler state machine and the menu   *)
(* messages of one chat.  One user, one chat.                              *)
(***************************************************************************)
EXTENDS Integers, Sequences, FiniteSets, TLC

\* ---------------------------------------------------------------- bounds
\* the last calendar day the clock reaches (the first is day 1)
MaxDay == 3
\* the number of updates the bot receives and clock changes it lives through
MaxEvents == 8

\* ------------------------------------------------------------- constants
START_ROUTES == "START_ROUTES"
GET_AMOUNT == "GET_AMOUNT"
GET_DESCRIPTION == "GET_DESCRIPTION"
\* ConversationHandler keeps no entry for a user outside a conversation
NO_CONVERSATION == "NO_CONVERSATION"
ADD_INCOME == "add_income"
ADD_EXPENSE == "add_expense"

\* The message texts a user may type, as sequences of characters.
Texts == { <<"a", "b">>, <<"2">>, <<"-", "1">> }

VARIABLES
  user_data,   \* context.user_data: the persisted per-user dict
  conv,        \* the ConversationHandler's state for the user
  today,       \* the calendar day of datetime.now(TZ)
  messages,    \* messages[i]: what the i-th menu message of the chat shows
  last,        \* the last event handled: what it was and what it did
  events       \* how many updates and clock changes there have been

vars == <<user_data, conv, today, messages, last, events>>

\* ------------------------------------------------------------- user_data
\* A Python dict: the set of keys present and the value under each key
\* (a key that is absent holds its zero value, which is never read).
EmptyUserData ==
  [keys |-> {}, last_update |-> 0, balance_start_day |-> 0,
   balance_end_day |-> 0, transactions_today |-> <<>>, message_id |-> 0,
   current_transaction |-> [keys |-> {}, type |-> "", amount |-> 0,
                            description |-> <<>>, date |-> 0]]

NoTransaction == EmptyUserData.current_transaction

Has(ud, k) == k \in ud.keys

\* dict.get(key, default) on a numeric key
GetNum(d, k, default) == IF k \in d.keys THEN d[k] ELSE default

\* ------------------------------------------------------------ float(text)
Digits == [c \in {"0","1","2","3","4","5","6","7","8","9"} |->
             CASE c = "0" -> 0 [] c = "1" -> 1 [] c = "2" -> 2 [] c = "3" -> 3
               [] c = "4" -> 4 [] c = "5" -> 5 [] c = "6" -> 6 [] c = "7" -> 7
               [] c = "8" -> 8 [] c = "9" -> 9]

IsDigits(s) == Len(s) > 0 /\ \A i \in 1..Len(s) : s[i] \in DOMAIN Digits

RECURSIVE DigitsValue(_)
DigitsValue(s) ==
  IF s = <<>> THEN 0
  ELSE 10 * DigitsValue(SubSeq(s, 1, Len(s) - 1)) + Digits[s[Len(s)]]

\* float(text) on an optionally signed run of decimal digits; anything else
\* raises ValueError.
ParseFloat(text) ==
  IF Len(text) > 0 /\ text[1] \in {"-", "+"}
  THEN IF IsDigits(Tail(text))
       THEN [ok |-> TRUE,
             value |-> IF text[1] = "-" THEN 0 - DigitsValue(Tail(text))
                       ELSE DigitsValue(Tail(text))]
       ELSE [ok |-> FALSE, value |-> 0]
  ELSE IF IsDigits(text)
       THEN [ok |-> TRUE, value |-> DigitsValue(text)]
       ELSE [ok |-> FALSE, value |-> 0]

\* ------------------------------------------------------- get_user_stats
RECURSIVE SumAmounts(_, _)
\* sum(t['amount'] for t in transactions if t['type'] == type)
SumAmounts(transactions, type) ==
  IF transactions = <<>> THEN 0
  ELSE (IF Head(transactions).type = type THEN Head(transactions).amount ELSE 0)
       + SumAmounts(Tail(transactions), type)

\* the condition of the "new user or new day" branch
NeedsRollover(ud, now) ==
  ~Has(ud, "last_update") \/ ud.last_update # now

\* Rollover that carries the old opening balance forward instead of the
\* closing one.
RolloverFromStart(ud, now) ==
  [ud EXCEPT !.keys = @ \cup {"balance_start_day", "transactions_today", "last_update"},
             !.balance_start_day = GetNum(ud, "balance_start_day", 0),
             !.transactions_today = <<>>,
             !.last_update = now]

\* the body of the "new user or new day" branch
Rollover(ud, now) ==
  [ud EXCEPT !.keys = @ \cup {"balance_start_day", "transactions_today", "last_update"},
             !.balance_start_day = GetNum(ud, "balance_end_day", 0),
             !.transactions_today = <<>>,
             !.last_update = now]

\* get_user_stats that returns the closing balance without saving it.
GetUserStatsNoSave(ud, now) ==
  LET ud1 == IF NeedsRollover(ud, now) THEN Rollover(ud, now) ELSE ud
      transactions == IF Has(ud1, "transactions_today")
                      THEN ud1.transactions_today ELSE <<>>
      total_income == SumAmounts(transactions, "income")
      total_expense == SumAmounts(transactions, "expense")
      balance_start == GetNum(ud1, "balance_start_day", 0)
      balance_end == balance_start + total_income - total_expense
  IN [ud |-> ud1,
      stats |-> [date |-> now,
                 balance_start |-> balance_start,
                 total_income |-> total_income,
                 total_expense |-> total_expense,
                 balance_end |-> balance_end,
                 transactions |-> transactions]]

\* get_user_stats that adds the day's totals to the saved closing balance
\* instead of recomputing it from the opening balance.
GetUserStatsAccumulating(ud, now) ==
  LET ud1 == IF NeedsRollover(ud, now) THEN Rollover(ud, now) ELSE ud
      transactions == IF Has(ud1, "transactions_today")
                      THEN ud1.transactions_today ELSE <<>>
      total_income == SumAmounts(transactions, "income")
      total_expense == SumAmounts(transactions, "expense")
      balance_start == GetNum(ud1, "balance_start_day", 0)
      balance_end == GetNum(ud1, "balance_end_day", 0) + total_income - total_expense
  IN [ud |-> [ud1 EXCEPT !.keys = @ \cup {"balance_end_day"},
                         !.balance_end_day = balance_end],
      stats |-> [date |-> now,
                 balance_start |-> balance_start,
                 total_income |-> total_income,
                 total_expense |-> total_expense,
                 balance_end |-> balance_end,
                 transactions |-> transactions]]

\* get_user_stats(user_data) at calendar day now: the dict as it leaves it
\* and the Stats it returns.
GetUserStats(ud, now) ==
  LET ud1 == IF NeedsRollover(ud, now) THEN Rollover(ud, now) ELSE ud
      transactions == IF Has(ud1, "transactions_today")
                      THEN ud1.transactions_today ELSE <<>>
      total_income == SumAmounts(transactions, "income")
      total_expense == SumAmounts(transactions, "expense")
      balance_start == GetNum(ud1, "balance_start_day", 0)
      balance_end == balance_start + total_income - total_expense
  IN [ud |-> [ud1 EXCEPT !.keys = @ \cup {"balance_end_day"},
                         !.balance_end_day = balance_end],
      stats |-> [date |-> now,
                 balance_start |-> balance_start,
                 total_income |-> total_income,
                 total_expense |-> total_expense,
                 balance_end |-> balance_end,
                 transactions |-> transactions]]

\* ------------------------------------------------------------- transport
\* One outbound call of the handler, and whether the transport carried it out.
Effect(op, id, ok) == [op |-> op, id |-> id, ok |-> ok]

\* The id the transport gives the next message sent: one no message had.
NewId(msgs) == Len(msgs) + 1

\* The chat after a new menu message is sent.
Sent(msgs) == Append(msgs, "menu")

\* What a handler leaves behind: the dict, the chat's menu messages, the
\* outbound calls it made, whether it raised, and the state it returned.
\* rolled: get_user_stats ran in it and took its "new day" branch.
Outcome(ud, msgs, effects, raised, next) ==
  [ud |-> ud, msgs |-> msgs, effects |-> effects, raised |-> raised,
   next |-> next, rolled |-> FALSE]

\* ------------------------------------------------------------------ start
\* start(update, context).  has_message: update.message is set (a /start
\* command) or None (the MockUpdate of save_transaction).  update.callback_query
\* is None on both paths.
\* An edit of the menu that goes through and is followed by a send all the same.
MenuEditedAndResent(ud, msgs, message_id) ==
  Outcome([ud EXCEPT !.message_id = NewId(msgs)],
          Sent([msgs EXCEPT ![message_id] = "menu"]),
          <<Effect("edit_menu", message_id, TRUE),
            Effect("send_menu", NewId(msgs), TRUE)>>,
          FALSE, START_ROUTES)

\* The else branch of start when bot.edit_message_text goes through: the
\* message message_id shows the menu again, nothing else changes.
MenuEdited(ud, msgs, message_id) ==
  Outcome(ud, [msgs EXCEPT ![message_id] = "menu"],
          <<Effect("edit_menu", message_id, TRUE)>>,
          FALSE, START_ROUTES)

Start(ud, msgs, now, has_message, okEdit, okSend) ==
  LET ud1 == GetUserStats(ud, now).ud
      new_id == NewId(msgs)
      sent == Outcome([ud1 EXCEPT !.keys = @ \cup {"message_id"},
                                  !.message_id = new_id],
                      Sent(msgs),
                      <<Effect("send_menu", new_id, TRUE)>>, FALSE, START_ROUTES)
      send_failed == Outcome(ud1, msgs, <<Effect("send_menu", 0, FALSE)>>,
                             TRUE, START_ROUTES)
      shown ==
        IF ~Has(ud1, "message_id")
        THEN IF okSend THEN sent ELSE send_failed
        ELSE LET message_id == ud1.message_id
                 edit_ok == okEdit /\ msgs[message_id] # "deleted"
             IN IF edit_ok
                THEN MenuEdited(ud1, msgs, message_id)
                ELSE IF has_message /\ okSend
                     THEN [sent EXCEPT !.effects =
                             <<Effect("edit_menu", message_id, FALSE)>> \o @]
                     ELSE [send_failed EXCEPT !.effects =
                             <<Effect("edit_menu", message_id, FALSE)>> \o @]
  IN [shown EXCEPT !.rolled = NeedsRollover(ud, now)]

\* --------------------------------------------------------- ask_for_amount
\* ask_for_amount(update, context) for a press of the button data on the
\* message pressed.
AskForAmount(ud, msgs, pressed, data, okAnswer, okEdit) ==
  LET transaction_type == IF data = ADD_INCOME THEN "income" ELSE "expense"
      ud1 == [ud EXCEPT !.keys = @ \cup {"current_transaction"},
                        !.current_transaction =
                           [NoTransaction EXCEPT !.keys = {"type"},
                                                 !.type = transaction_type]]
  IN IF ~okAnswer
     THEN Outcome(ud, msgs, <<Effect("answer", pressed, FALSE)>>, TRUE, GET_AMOUNT)
     ELSE IF okEdit
          THEN Outcome(ud1, [msgs EXCEPT ![pressed] = "prompt"],
                       <<Effect("answer", pressed, TRUE),
                         Effect("edit_prompt", pressed, TRUE)>>, FALSE, GET_AMOUNT)
          ELSE Outcome(ud1, msgs,
                       <<Effect("answer", pressed, TRUE),
                         Effect("edit_prompt", pressed, FALSE)>>, TRUE, GET_AMOUNT)

\* ---------------------------------------------------- ask_for_description
\* ask_for_description that takes a text that is no number as the amount 0.
AskForDescriptionLenient(ud, msgs, text, okReply) ==
  LET parsed == ParseFloat(text)
  IN IF ~Has(ud, "current_transaction")
     THEN Outcome(ud, msgs, <<>>, TRUE, GET_AMOUNT)
     ELSE Outcome([ud EXCEPT !.current_transaction.keys = @ \cup {"amount"},
                             !.current_transaction.amount = parsed.value],
                  msgs, <<Effect("reply_ask_description", 0, okReply)>>,
                  ~okReply, GET_DESCRIPTION)

AskForDescription(ud, msgs, text, okReply) ==
  LET parsed == ParseFloat(text)
  IN IF ~parsed.ok
     THEN \* ValueError: re-prompt, stay in GET_AMOUNT
          Outcome(ud, msgs, <<Effect("reply_retry", 0, okReply)>>,
                  ~okReply, GET_AMOUNT)
     ELSE IF ~Has(ud, "current_transaction")
          THEN \* KeyError is not among the exceptions caught
               Outcome(ud, msgs, <<>>, TRUE, GET_AMOUNT)
          ELSE Outcome([ud EXCEPT !.current_transaction.keys = @ \cup {"amount"},
                                  !.current_transaction.amount = parsed.value],
                       msgs, <<Effect("reply_ask_description", 0, okReply)>>,
                       ~okReply, GET_DESCRIPTION)

\* ------------------------------------------------------- save_transaction
SaveTransaction(ud, msgs, now, text, okDelete, okSend) ==
  IF ~Has(ud, "current_transaction")
  THEN \* KeyError on context.user_data['current_transaction']
       Outcome(ud, msgs, <<>>, TRUE, START_ROUTES)
  ELSE
    LET transaction == [ud.current_transaction EXCEPT
                          !.keys = @ \cup {"description", "date"},
                          !.description = text,
                          !.date = now]
        ud1 == IF Has(ud, "transactions_today") THEN ud
               ELSE [ud EXCEPT !.keys = @ \cup {"transactions_today"},
                               !.transactions_today = <<>>]
        ud2 == [ud1 EXCEPT !.transactions_today = Append(@, transaction)]
        had_menu == Has(ud2, "message_id")
        old_menu_id == ud2.message_id
        \* user_data.pop('message_id', None); user_data.pop('current_transaction', None)
        ud3 == [ud2 EXCEPT !.keys = @ \ {"message_id", "current_transaction"},
                           !.message_id = 0,
                           !.current_transaction = NoTransaction]
        delete_ok == okDelete /\ had_menu /\ msgs[old_menu_id] # "deleted"
        msgs1 == IF delete_ok THEN [msgs EXCEPT ![old_menu_id] = "deleted"] ELSE msgs
        deletes == IF had_menu THEN <<Effect("delete", old_menu_id, delete_ok)>>
                   ELSE <<>>
        shown == Start(ud3, msgs1, now, FALSE, FALSE, okSend)
    IN [shown EXCEPT !.effects = deletes \o @]

\* ------------------------------------------------------------------ events
\* The record of a handled update: the event, the conversation state it
\* arrived in, its text (for a text message), what the handler did, and, when
\* get_user_stats rolled the day over, how many days last_update lay back.
Event(ev, from, text, out) ==
  [ev |-> ev, from |-> from, text |-> text,
   handled |-> TRUE, raised |-> out.raised, effects |-> out.effects,
   gap |-> IF out.rolled /\ Has(user_data, "last_update")
           THEN today - user_data.last_update ELSE 0]

\* An update no handler of the current state matches: nothing runs.
Unhandled(ev, from) ==
  [ev |-> ev, from |-> from, text |-> <<>>,
   handled |-> FALSE, raised |-> FALSE, effects |-> <<>>, gap |-> 0]

\* A MessageHandler registered under START_ROUTES as well.
TextHandlerInMenu(state) ==
  CASE state \in {GET_AMOUNT, START_ROUTES} -> "ask_for_description"
    [] state = GET_DESCRIPTION -> "save_transaction"
    [] OTHER -> "none"

\* The MessageHandler(filters.TEXT & ~filters.COMMAND) of each state.
TextHandler(state) ==
  CASE state = GET_AMOUNT -> "ask_for_description"
    [] state = GET_DESCRIPTION -> "save_transaction"
    [] OTHER -> "none"

\* A CallbackQueryHandler registered under every state of the conversation.
CallbackHandlerAnyState(state) ==
  IF state # NO_CONVERSATION THEN "ask_for_amount" ELSE "none"

\* The CallbackQueryHandler of each state.
CallbackHandler(state) ==
  IF state = START_ROUTES THEN "ask_for_amount" ELSE "none"

\* A ConversationHandler that moves to the handler's next state even when the
\* handler raised.
ApplyDespiteRaise(out) ==
  /\ user_data' = out.ud
  /\ messages' = out.msgs
  /\ conv' = out.next
  /\ UNCHANGED today

\* ConversationHandler: a handler that raises leaves the conversation state
\* as it was; user_data keeps what the handler wrote before raising.
Apply(out) ==
  /\ user_data' = out.ud
  /\ messages' = out.msgs
  /\ conv' = IF out.raised THEN conv ELSE out.next
  /\ UNCHANGED today

Ignore ==
  UNCHANGED <<user_data, conv, today, messages>>

\* One more update (or clock change) within the bound.
Count ==
  /\ events < MaxEvents
  /\ events' = events + 1

\* "/start": the entry point outside a conversation, the fallback inside one.
EntryCommand ==
  \E okEdit, okSend \in BOOLEAN :
    LET out == Start(user_data, messages, today, TRUE, okEdit, okSend)
    IN /\ Count
       /\ Apply(out)
       /\ last' = Event("EntryCommand", conv, <<>>, out)

\* A press of one of the two buttons of a menu message, or the callback of
\* such a press delivered once more after the message became the prompt.
ButtonPress ==
  \E pressed \in 1..Len(messages) :
    /\ Count
    /\ messages[pressed] \in {"menu", "prompt"}
    /\ IF CallbackHandler(conv) = "ask_for_amount"
       THEN \E data \in {ADD_INCOME, ADD_EXPENSE}, okAnswer, okEdit \in BOOLEAN :
              LET out == AskForAmount(user_data, messages, pressed, data,
                                      okAnswer, okEdit)
              IN /\ Apply(out)
                 /\ last' = Event("ButtonPress", conv, <<>>, out)
       ELSE /\ Ignore
            /\ last' = Unhandled("ButtonPress", conv)

\* A text message that is not a command.
TextInput ==
  /\ Count
  /\ CASE TextHandler(conv) = "ask_for_description" ->
           \E text \in Texts, okReply \in BOOLEAN :
             LET out == AskForDescription(user_data, messages, text, okReply)
             IN /\ Apply(out)
                /\ last' = Event("TextInput", conv, text, out)
      [] TextHandler(conv) = "save_transaction" ->
           \E text \in Texts, okDelete, okSend \in BOOLEAN :
             LET out == SaveTransaction(user_data, messages, today, text,
                                        okDelete, okSend)
             IN /\ Apply(out)
                /\ last' = Event("TextInput", conv, text, out)
      [] OTHER ->
           /\ Ignore
           /\ last' = Unhandled("TextInput", conv)

\* Midnight passes in TZ, once or several times, with no event in between.
Tick ==
  \E d \in 1..(MaxDay - today) :
    /\ Count
    /\ today' = today + d
    /\ last' = Unhandled("Tick", conv)
    /\ UNCHANGED <<user_data, conv, messages>>

Init ==
  /\ user_data = EmptyUserData
  /\ conv = NO_CONVERSATION
  /\ today = 1
  /\ messages = <<>>
  /\ last = Unhandled("Init", NO_CONVERSATION)
  /\ events = 0

Next ==
  \/ EntryCommand
  \/ ButtonPress
  \/ TextInput
  \/ Tick

Spec == Init /\ [][Next]_vars

\* The process stops and main() runs again.  PicklePersistence restores
\* user_data; the ConversationHandler is built without name and persistent,
\* so its conversation states are not stored and every chat starts outside
\* a conversation.
Restart ==
  /\ Count
  /\ conv' = NO_CONVERSATION
  /\ last' = Unhandled("Restart", conv)
  /\ UNCHANGED <<user_data, today, messages>>

NextRestart ==
  \/ Next
  \/ Restart

SpecRestart == Init /\ [][NextRestart]_vars

\* ================================================================ claims
\* The ledger as stored between events.
StoredTransactions(ud) ==
  IF Has(ud, "transactions_today") THEN ud.transactions_today ELSE <<>>

StoredLedger(ud) ==
  [present |-> ud.keys \cap {"last_update", "balance_start_day",
                             "balance_end_day", "transactions_today"},
   last_update |-> ud.last_update,
   balance_start_day |-> ud.balance_start_day,
   balance_end_day |-> ud.balance_end_day,
   transactions_today |-> ud.transactions_today]

\* The step is a text message handled by save_transaction with a pending
\* transaction in the session.
CommitStep ==
  /\ conv = GET_DESCRIPTION
  /\ Has(user_data, "current_transaction")
  /\ last'.ev = "TextInput"

\* The step runs get_user_stats.
StatsStep ==
  \/ last'.ev = "EntryCommand"
  \/ CommitStep

\* C1: every TextInput handled in AwaitingDescription with a pending
\* transaction, once its handler has returned, leaves the state MainMenu, the
\* transaction {kind, amount, description = text} in transactionsToday and
\* balanceEndOfDay equal to the opening balance plus the day's income minus
\* its expense, whatever the clock shows.
C1_CommitRecorded ==
  [][ (CommitStep /\ ~last'.raised) =>
        /\ conv' = START_ROUTES
        /\ \E i \in 1..Len(StoredTransactions(user_data')) :
             LET t == StoredTransactions(user_data')[i]
             IN /\ t.type = user_data.current_transaction.type
                /\ t.amount = user_data.current_transaction.amount
                /\ t.description = last'.text
        /\ user_data'.balance_end_day =
             user_data'.balance_start_day
               + SumAmounts(StoredTransactions(user_data'), "income")
               - SumAmounts(StoredTransactions(user_data'), "expense") ]_vars

\* C2: between events (after a handler returned or raised) the stored
\* balance_end_day is balance_start_day plus the income minus the expense of
\* the stored transactions_today.
C2_BalanceConsistent ==
  GetNum(user_data, "balance_end_day", 0) =
    GetNum(user_data, "balance_start_day", 0)
      + SumAmounts(StoredTransactions(user_data), "income")
      - SumAmounts(StoredTransactions(user_data), "expense")

\* A commit whose send of the new menu failed left a transaction that moves
\* the balance in the ledger.
C2_Witness ==
  /\ last.ev = "TextInput"
  /\ last.from = GET_DESCRIPTION
  /\ last.raised
  /\ Len(StoredTransactions(user_data)) > 0
  /\ user_data.balance_end_day # user_data.balance_start_day

\* C3: when get_user_stats runs on a date other than last_update (or with no
\* last_update), balance_start_day becomes the balance_end_day stored before
\* (0 if none), transactions_today becomes empty and last_update becomes
\* today, whatever the length of the gap.
C3_RolloverOneStep ==
  [][ (StatsStep /\ (~Has(user_data, "last_update")
                      \/ user_data.last_update # today)) =>
        /\ {"balance_start_day", "transactions_today", "last_update"}
             \subseteq user_data'.keys
        /\ user_data'.balance_start_day = GetNum(user_data, "balance_end_day", 0)
        /\ user_data'.transactions_today = <<>>
        /\ user_data'.last_update = today ]_vars

\* A rollover over a gap of more than one day carried a balance forward.
C3_Witness ==
  /\ last.ev = "EntryCommand"
  /\ last.gap >= 2
  /\ user_data.balance_start_day # 0
  /\ user_data.last_update = today

\* C4: get_user_stats run twice on the same day with nothing in between
\* returns the same Stats twice, and the second run leaves the ledger as the
\* first left it.
C4_StatsIdempotent ==
  LET first == GetUserStats(user_data, today)
      second == GetUserStats(first.ud, today)
  IN /\ second.stats = first.stats
     /\ StoredLedger(second.ud) = StoredLedger(first.ud)

\* get_user_stats has run today on a ledger whose transactions move the
\* balance.
C4_Witness ==
  /\ last.ev = "EntryCommand"
  /\ last.gap = 0
  /\ user_data.last_update = today
  /\ Len(StoredTransactions(user_data)) > 0
  /\ user_data.balance_end_day # user_data.balance_start_day

\* C5: whenever the conversation state is MainMenu between events, the
\* session holds no pendingTransaction.
C5_NoPendingInMainMenu ==
  conv = START_ROUTES => ~Has(user_data, "current_transaction")

\* C6: in AwaitingAmount a text that is no number leaves the state, the
\* pendingTransaction, the ledger and liveMessageId as they were; the only
\* outbound call is the retry prompt.
C6_ParseFailureKeepsState ==
  [][ (conv = GET_AMOUNT /\ last'.ev = "TextInput" /\ ~ParseFloat(last'.text).ok) =>
        /\ conv' = GET_AMOUNT
        /\ user_data' = user_data
        /\ messages' = messages
        /\ Len(last'.effects) = 1
        /\ last'.effects[1].op = "reply_retry" ]_vars

\* A text that is no number was handled in AwaitingAmount.
C6_Witness ==
  /\ last.ev = "TextInput"
  /\ last.from = GET_AMOUNT
  /\ last.handled
  /\ ~ParseFloat(last.text).ok
  /\ conv = GET_AMOUNT

\* C7: every transaction in transactionsToday has amount > 0.
C7_AmountsPositive ==
  \A i \in 1..Len(StoredTransactions(user_data)) :
    StoredTransactions(user_data)[i].amount > 0

\* C8: a TextInput in MainMenu changes neither the conversation state nor the
\* session nor the ledger, and makes no outbound call.
C8_TextInMainMenuIgnored ==
  [][ (conv = START_ROUTES /\ last'.ev = "TextInput") =>
        /\ conv' = conv
        /\ user_data' = user_data
        /\ messages' = messages
        /\ last'.effects = <<>>
        /\ ~last'.raised ]_vars

\* A text message arrived in MainMenu with a ledger and a live message.
C8_Witness ==
  /\ last.ev = "TextInput"
  /\ last.from = START_ROUTES
  /\ conv = START_ROUTES
  /\ Has(user_data, "message_id")
  /\ Len(StoredTransactions(user_data)) > 0

\* C9: a TextInput handled in AwaitingDescription (or AwaitingAmount) with no
\* pendingTransaction in the session raises nothing: the state becomes
\* MainMenu, a main menu is rendered and transactionsToday is unchanged.
C9_MissingPendingResets ==
  [][ (conv \in {GET_AMOUNT, GET_DESCRIPTION}
       /\ ~Has(user_data, "current_transaction")
       /\ last'.ev = "TextInput") =>
        /\ ~last'.raised
        /\ conv' = START_ROUTES
        /\ \E i \in 1..Len(last'.effects) :
             last'.effects[i].op \in {"send_menu", "edit_menu"}
        /\ StoredTransactions(user_data') = StoredTransactions(user_data) ]_vars

\* C10: a commit that raises because the send of the new main menu failed
\* leaves the state and the pendingTransaction as they were before the event,
\* so that the same text delivered again is handled as a commit.
C10_FailedSendKeepsDialogue ==
  [][ (CommitStep /\ last'.raised) =>
        /\ conv' = conv
        /\ Has(user_data', "current_transaction")
        /\ user_data'.current_transaction = user_data.current_transaction ]_vars

\* C11: whenever an edit of the live message fails (the menu edit of an
\* EntryCommand, the prompt edit of a ButtonPress), a new message is sent
\* instead; when that send goes through, liveMessageId is its id and the
\* state transition of the event takes place.
C11_EditFailureFallsBack ==
  [][ (\E i \in 1..Len(last'.effects) :
         /\ last'.effects[i].op \in {"edit_menu", "edit_prompt"}
         /\ ~last'.effects[i].ok) =>
        \E j \in 1..Len(last'.effects) :
          /\ last'.effects[j].op = "send_menu"
          /\ last'.effects[j].ok =>
               /\ Has(user_data', "message_id")
               /\ user_data'.message_id = last'.effects[j].id
               /\ conv' = IF last'.ev = "ButtonPress" THEN GET_AMOUNT
                          ELSE START_ROUTES ]_vars

\* C12: an EntryCommand handled with a liveMessageId present whose edit call
\* goes through makes exactly one outbound call, the edit of the message
\* liveMessageId, sends nothing and leaves liveMessageId as it was; the chat
\* gets no new message.
C12_EntryEditsInPlace ==
  [][ (/\ last'.ev = "EntryCommand"
       /\ Has(user_data, "message_id")
       /\ \E i \in 1..Len(last'.effects) :
            last'.effects[i].op = "edit_menu" /\ last'.effects[i].ok) =>
        /\ last'.effects = <<Effect("edit_menu", user_data.message_id, TRUE)>>
        /\ Has(user_data', "message_id")
        /\ user_data'.message_id = user_data.message_id
        /\ Len(messages') = Len(messages) ]_vars

\* After three events the chat still holds the one menu message, and the
\* last EntryCommand edited it in place.
C12_Witness ==
  /\ last.ev = "EntryCommand"
  /\ last.from = START_ROUTES
  /\ events >= 3
  /\ Len(messages) = 1
  /\ last.effects = <<Effect("edit_menu", 1, TRUE)>>
  /\ user_data.message_id = 1

\* C13: a commit in AwaitingDescription attempts the delete of the old live
\* message and then makes one send of a new main menu, and no edit; when the
\* send goes through, whether or not the delete did, the transaction is in
\* transactionsToday, liveMessageId is the id of the new message and the
\* state is MainMenu.
C13_CommitSendsNewMenu ==
  [][ CommitStep =>
        /\ Has(user_data, "message_id")
        /\ Len(last'.effects) = 2
        /\ last'.effects[1].op = "delete"
        /\ last'.effects[1].id = user_data.message_id
        /\ last'.effects[2].op = "send_menu"
        /\ last'.effects[2].ok =>
             /\ conv' = START_ROUTES
             /\ Has(user_data', "message_id")
             /\ user_data'.message_id = last'.effects[2].id
             /\ messages'[user_data'.message_id] = "menu"
             /\ \E i \in 1..Len(StoredTransactions(user_data')) :
                  LET t == StoredTransactions(user_data')[i]
                  IN /\ t.type = user_data.current_transaction.type
                     /\ t.amount = user_data.current_transaction.amount
                     /\ t.description = last'.text ]_vars

\* The same, for the commits handled on the day of last_update.
C13_SameDayCommit ==
  [][ (CommitStep /\ Has(user_data, "last_update")
                  /\ user_data.last_update = today) =>
        /\ Has(user_data, "message_id")
        /\ Len(last'.effects) = 2
        /\ last'.effects[1].op = "delete"
        /\ last'.effects[1].id = user_data.message_id
        /\ last'.effects[2].op = "send_menu"
        /\ last'.effects[2].ok =>
             /\ conv' = START_ROUTES
             /\ Has(user_data', "message_id")
             /\ user_data'.message_id = last'.effects[2].id
             /\ messages'[user_data'.message_id] = "menu"
             /\ StoredTransactions(user_data') =
                  Append(StoredTransactions(user_data),
                         [user_data.current_transaction EXCEPT
                            !.keys = @ \cup {"description", "date"},
                            !.description = last'.text,
                            !.date = today]) ]_vars

\* C14: with last_update earlier than today, any event a handler runs for
\* (EntryCommand, ButtonPress, TextInput) performs the rollover, and a
\* transaction it commits is recorded after it; with last_update equal to
\* today no event performs it again.
C14_FirstEventRollsOver ==
  [][ (last'.handled /\ Has(user_data, "last_update")) =>
        /\ user_data.last_update < today =>
             /\ user_data'.last_update = today
             /\ user_data'.balance_start_day = GetNum(user_data, "balance_end_day", 0)
             /\ (CommitStep /\ ~last'.raised) =>
                  \E i \in 1..Len(StoredTransactions(user_data')) :
                    StoredTransactions(user_data')[i].description = last'.text
        /\ user_data.last_update = today =>
             /\ user_data'.last_update = today
             /\ user_data'.balance_start_day = user_data.balance_start_day
             /\ last'.gap = 0 ]_vars

\* The part of C14 the code keeps: on the day of last_update no event
\* performs the rollover again.
C14_NoSecondRollover ==
  [][ (last'.handled /\ Has(user_data, "last_update")
                     /\ user_data.last_update = today) =>
        /\ user_data'.last_update = today
        /\ user_data'.balance_start_day = user_data.balance_start_day
        /\ Len(StoredTransactions(user_data')) >= Len(StoredTransactions(user_data))
        /\ last'.gap = 0 ]_vars

\* C15: whenever a new main-menu message is sent while user_data holds a
\* message_id, message_id is rebound to the new message and a delete of the
\* previous message is attempted.
C15_NewMenuDeletesPrevious ==
  [][ \A i \in 1..Len(last'.effects) :
        (/\ Has(user_data, "message_id")
         /\ last'.effects[i].op = "send_menu"
         /\ last'.effects[i].ok) =>
          /\ Has(user_data', "message_id")
          /\ user_data'.message_id = last'.effects[i].id
          /\ \E j \in 1..Len(last'.effects) :
               /\ last'.effects[j].op = "delete"
               /\ last'.effects[j].id = user_data.message_id ]_vars

\* The part of C15 the code keeps: a new main-menu message that is sent
\* becomes the one message_id names.
C15_NewMenuRebinds ==
  [][ \A i \in 1..Len(last'.effects) :
        (last'.effects[i].op = "send_menu" /\ last'.effects[i].ok) =>
          /\ Has(user_data', "message_id")
          /\ user_data'.message_id = last'.effects[i].id
          /\ messages'[last'.effects[i].id] = "menu" ]_vars

\* C16: a restart in GET_AMOUNT or GET_DESCRIPTION keeps the conversation
\* state and current_transaction, and the next text message is handled by
\* that state's handler.
C16_RestartKeepsConversation ==
  [][ /\ (last'.ev = "Restart" /\ conv \in {GET_AMOUNT, GET_DESCRIPTION}) =>
           /\ conv' = conv
           /\ Has(user_data', "current_transaction")
           /\ user_data'.current_transaction = user_data.current_transaction
      /\ (/\ last.ev = "Restart"
          /\ last.from \in {GET_AMOUNT, GET_DESCRIPTION}
          /\ last'.ev = "TextInput") =>
           /\ last'.handled
           /\ last'.from = last.from ]_vars

\* The part of C16 the code keeps: user_data, current_transaction included,
\* is the same after a restart.
C16_RestartKeepsUserData ==
  [][ last'.ev = "Restart" => user_data' = user_data ]_vars

\* The stored transactions dated now.
CurrentDayTx(ud, now) ==
  LET OfNow(t) == t.date = now
  IN SelectSeq(StoredTransactions(ud), OfNow)

\* The menu message_id names is in the chat with its buttons.
MenuRendered(ud, msgs) ==
  /\ Has(ud, "message_id")
  /\ ud.message_id \in 1..Len(msgs)
  /\ msgs[ud.message_id] = "menu"

\* C17 as stated: an EntryCommand handled in any state ends in START_ROUTES
\* with the main menu rendered and leaves the transactions of the current
\* day as they were.
C17_EntryEndsInMainMenu ==
  [][ last'.ev = "EntryCommand" =>
        /\ conv' = START_ROUTES
        /\ MenuRendered(user_data', messages')
        /\ CurrentDayTx(user_data', today) = CurrentDayTx(user_data, today) ]_vars

\* C17 amended: an EntryCommand handled in any state leaves the transactions
\* of the current day as they were; when its rendering goes through (the edit
\* of the menu message or else the send of a new one) it ends in START_ROUTES
\* with the main menu rendered, and when the send fails the handler raises
\* and the conversation state stays as it was.
C17_EntryRendersOrKeepsState ==
  [][ last'.ev = "EntryCommand" =>
        /\ last'.handled
        /\ CurrentDayTx(user_data', today) = CurrentDayTx(user_data, today)
        /\ ~last'.raised =>
             /\ conv' = START_ROUTES
             /\ MenuRendered(user_data', messages')
        /\ last'.raised =>
             /\ conv' = conv
             /\ messages' = messages
             /\ \E i \in 1..Len(last'.effects) :
                  /\ last'.effects[i].op = "send_menu"
                  /\ ~last'.effects[i].ok ]_vars

\* An EntryCommand arrived in GET_DESCRIPTION on a day with a stored
\* transaction, and the menu was rendered.
C17_Witness ==
  /\ last.ev = "EntryCommand"
  /\ last.from = GET_DESCRIPTION
  /\ ~last.raised
  /\ conv = START_ROUTES
  /\ MenuRendered(user_data, messages)
  /\ Len(CurrentDayTx(user_data, today)) > 0

\* C18: a ButtonPress delivered in GET_AMOUNT or GET_DESCRIPTION runs no
\* handler: the conversation state, user_data (current_transaction,
\* message_id and the ledger) and the chat are unchanged; and a step that
\* appends to transactions_today is a commit, appends one transaction and
\* discards current_transaction.
C18_ButtonPressOutsideMenuIgnored ==
  [][ /\ (last'.ev = "ButtonPress" /\ conv \in {GET_AMOUNT, GET_DESCRIPTION}) =>
           /\ ~last'.handled
           /\ last'.effects = <<>>
           /\ conv' = conv
           /\ user_data' = user_data
           /\ messages' = messages
      /\ Len(StoredTransactions(user_data')) > Len(StoredTransactions(user_data)) =>
           /\ CommitStep
           /\ Len(StoredTransactions(user_data')) = Len(StoredTransactions(user_data)) + 1
           /\ ~Has(user_data', "current_transaction") ]_vars

\* A ButtonPress arrived while a transaction was pending in GET_AMOUNT or
\* GET_DESCRIPTION.
C18_Witness ==
  /\ last.ev = "ButtonPress"
  /\ last.from \in {GET_AMOUNT, GET_DESCRIPTION}
  /\ ~last.handled
  /\ conv = last.from
  /\ Has(user_data, "current_transaction")

\* C19: the message a ButtonPress accepted in START_ROUTES turns into the
\* "enter amount" prompt is the one message_id names, and the commit that
\* follows deletes the message that was turned into the prompt.
C19_PromptIsLiveMessage ==
  [][ /\ (last'.ev = "ButtonPress" /\ last'.handled) =>
           \A i \in 1..Len(last'.effects) :
             last'.effects[i].op = "edit_prompt" =>
               /\ Has(user_data, "message_id")
               /\ last'.effects[i].id = user_data.message_id
      /\ CommitStep =>
           \A i \in 1..Len(last'.effects) :
             last'.effects[i].op = "delete" =>
               messages[last'.effects[i].id] = "prompt" ]_vars

\* The part of C19 the code keeps: the message a commit tries to delete is
\* the one message_id names.
C19_CommitDeletesLiveMessage ==
  [][ CommitStep =>
        \A i \in 1..Len(last'.effects) :
          last'.effects[i].op = "delete" =>
            /\ Has(user_data, "message_id")
            /\ last'.effects[i].id = user_data.message_id ]_vars

\* What the pending transaction adds to the balance once committed.
PendingEffect(ud) ==
  IF ud.current_transaction.type = "income"
  THEN ud.current_transaction.amount
  ELSE 0 - ud.current_transaction.amount

\* C20: balance_end_day is the sum of the income ever committed minus the
\* sum of the expense ever committed; step by step: a commit changes
\* balance_end_day by the amount of its transaction, added for an income and
\* subtracted for an expense, and no other step, a rollover included, changes
\* it.
C20_BalanceIsNetOfCommits ==
  [][ IF CommitStep
      THEN GetNum(user_data', "balance_end_day", 0) =
             GetNum(user_data, "balance_end_day", 0) + PendingEffect(user_data)
      ELSE GetNum(user_data', "balance_end_day", 0) =
             GetNum(user_data, "balance_end_day", 0) ]_vars

\* The part of C20 the code keeps: the same, for the steps taken on the day
\* of last_update and the steps that commit nothing.
C20_SameDayBalanceIsNet ==
  [][ IF CommitStep
      THEN user_data.last_update = today =>
             GetNum(user_data', "balance_end_day", 0) =
               GetNum(user_data, "balance_end_day", 0) + PendingEffect(user_data)
      ELSE GetNum(user_data', "balance_end_day", 0) =
             GetNum(user_data, "balance_end_day", 0) ]_vars

====
